---- MODULE Spec2Model ----
(***************************************************************************)
(* CraftFlow server: the access-control pipeline (verifyFBToken, the role  *)
(* gates) and the route handlers over the users, work-sheet and payments   *)
(* collections, as a state machine.  Every `await` of the source is one    *)
(* step: the awaited call takes effect and the code runs on, synchronously,*)
(* to its next await or to its response.                                   *)
(*                                                                         *)
(* Strings are sequences of one-character strings, so that startsWith,     *)
(* split, toLowerCase, the year regex and parseInt are computed.  An       *)
(* optional value (a missing header, the null of findOne) is a sequence of *)
(* length 0 or 1.                                                          *)
(***************************************************************************)
EXTENDS Integers, Sequences, FiniteSets, TLC

VARIABLES users, tasks, payments, req

vars == <<users, tasks, payments, req>>

(* ----------------------------- bounds ---------------------------------- *)

\* requests received in one behaviour (each slot serves one request)
MaxReq == 2

Reqs == 1..MaxReq

(* ----------------------------- strings --------------------------------- *)

Upper == <<"A","B","C","D","E","F","G","H","I","J","K","L","M",
           "N","O","P","Q","R","S","T","U","V","W","X","Y","Z">>

Lower == <<"a","b","c","d","e","f","g","h","i","j","k","l","m",
           "n","o","p","q","r","s","t","u","v","w","x","y","z">>

LowerChar(c) ==
  IF \E i \in 1..Len(Upper) : Upper[i] = c
  THEN Lower[CHOOSE i \in 1..Len(Upper) : Upper[i] = c]
  ELSE c

\* String.prototype.toLowerCase
ToLowerCase(s) == [i \in 1..Len(s) |-> LowerChar(s[i])]

\* String.prototype.startsWith
StartsWith(s, p) == Len(s) >= Len(p) /\ SubSeq(s, 1, Len(p)) = p

\* String.prototype.split(" ")
RECURSIVE Split(_)
Split(s) ==
  IF \A i \in 1..Len(s) : s[i] # " "
  THEN <<s>>
  ELSE LET i == CHOOSE k \in 1..Len(s) :
                  s[k] = " " /\ \A j \in 1..(k-1) : s[j] # " "
       IN <<SubSeq(s, 1, i-1)>> \o Split(SubSeq(s, i+1, Len(s)))

(* ----------------------------- emails ---------------------------------- *)

\* the bootstrap address of POST /users
AdminEmail == <<"a","d","m","i","n","@","g","m","a","i","l",".","c","o","m">>

HrEmail   == <<"h","@","x">>
EmpEmail  == <<"e","@","x">>
Emp2Email == <<"f","@","x">>
NewEmail  == <<"g","@","x">>

(* ----------------------------- JS values -------------------------------- *)

\* a JSON value of a request body or a stored field: a number, a string or
\* undefined.  Equality of two values is equality of kind and content, which
\* is how the store's equality filter compares a string with a number.
Undef  == [s |-> <<>>, k |-> "undef", n |-> 0]
Num(n) == [s |-> <<>>, k |-> "num", n |-> n]
Str(s) == [s |-> s, k |-> "str", n |-> 0]

(* ----------------------------- records --------------------------------- *)

User(e, role, st, ver, des) ==
  [role |-> role, email |-> e, status |-> st, isVerified |-> ver, designation |-> des]

\* req.body, and the parameters of req.query (email, page, limit)
NoBody == [role |-> "", email |-> <<>>, status |-> "", isVerified |-> FALSE,
           designation |-> "",
           created_by |-> <<>>, task |-> "", hours |-> Undef,
           employeeId |-> "", month |-> Undef, year |-> Undef,
           page |-> Undef, limit |-> Undef]

NoReq == [status |-> 0, route |-> "", pc |-> "idle", hdr |-> <<>>, calls |-> 0,
          idp |-> "", decoded |-> <<>>,
          gate |-> <<>>, id |-> 0, body |-> NoBody, loc |-> <<>>,
          list |-> <<>>, total |-> 0,
          msg |-> "", fault |-> FALSE, ran |-> FALSE, intents |-> 0,
          seenPayments |-> 0, seenUsers |-> <<>>]

\* res.status(code).send({message}) : the request is answered and over
Respond(q, code, msg) == [q EXCEPT !.pc = "done", !.status = code, !.msg = msg]

\* the catch of a handler after a store call of the request failed: 500.
\* fault is a history field the code does not have: a call of the request
\* was rejected by the store.
Fail(q, msg) == [Respond(q, 500, msg) EXCEPT !.fault = TRUE]

(* ----------------------------- routes ---------------------------------- *)

\* (a variant: PATCH fire registered with verifyHR)
RouteGuardFireByHR ==
  [r \in {"POST /login-check", "POST /users", "POST /create-payment-intent"} |-> "none"]
  @@ [r \in {"GET /users/me", "GET /users/role"} |-> "token"]
  @@ [r \in {"GET /users/employees", "PATCH /users/:id/update-verification",
             "GET /users/:id/details", "GET /users", "POST /payment",
             "GET /work-sheet", "PATCH /users/:id/fire"} |-> "HR"]
  @@ [r \in {"GET /users/verified", "PATCH /users/:id/make-hr"} |-> "Admin"]
  @@ [r \in {"POST /work-sheet", "GET /work-sheet/me", "PUT /work-sheet/:id",
             "DELETE /work-sheet/:id", "GET /payments"} |-> "Employee"]

\* the middleware each route is registered with
RouteGuard ==
  [r \in {"POST /login-check", "POST /users", "POST /create-payment-intent"} |-> "none"]
  @@ [r \in {"GET /users/me", "GET /users/role"} |-> "token"]
  @@ [r \in {"GET /users/employees", "PATCH /users/:id/update-verification",
             "GET /users/:id/details", "GET /users", "POST /payment",
             "GET /work-sheet"} |-> "HR"]
  @@ [r \in {"GET /users/verified", "PATCH /users/:id/make-hr",
             "PATCH /users/:id/fire"} |-> "Admin"]
  @@ [r \in {"POST /work-sheet", "GET /work-sheet/me", "PUT /work-sheet/:id",
             "DELETE /work-sheet/:id", "GET /payments"} |-> "Employee"]

(* ----------------------------- identity provider ----------------------- *)

Bearer == <<"B","e","a","r","e","r">>

\* the header "Bearer <tok>"
BearerHdr(tok) == <<Bearer \o <<" ">> \o tok>>

\* the tokens the provider has issued, and the email each decodes to
TokenEmail ==
  (<<"1">> :> AdminEmail) @@ (<<"2">> :> HrEmail) @@ (<<"3">> :> EmpEmail)
  @@ (<<"4">> :> Emp2Email)

\* admin.auth().verifyIdToken(token): a token that was never issued is
\* rejected; an issued one is accepted, or rejected once it has expired
ProviderVerdicts(tok) == IF tok \in DOMAIN TokenEmail THEN {TRUE, FALSE} ELSE {FALSE}

(* ----------------------------- verifyFBToken --------------------------- *)

\* !authHeaders || !authHeaders.startsWith("Bearer")
HeaderRejected(h) == h = <<>> \/ h[1] = <<>> \/ ~StartsWith(h[1], Bearer)

\* authHeaders.split(" ")[1]
TokenOf(h) == LET parts == Split(h[1]) IN IF Len(parts) >= 2 THEN <<parts[2]>> ELSE <<>>

\* (a variant: only a header without a second segment counts as missing)
TokenMissingUndefinedOnly(h) == TokenOf(h) = <<>>

\* !token
TokenMissing(h) == TokenOf(h) = <<>> \/ TokenOf(h)[1] = <<>>

(* ----------------------------- the store ------------------------------- *)

\* a store call returns, or fails (the driver's promise rejects)
StoreOutcomes == {TRUE, FALSE}

\* usersCollection.findOne({ email }) : the first match in insertion order
FindUserByEmail(us, e) ==
  LET idx == {i \in 1..Len(us) : us[i].email = e}
  IN IF idx = {} THEN <<>>
     ELSE <<us[CHOOSE i \in idx : \A j \in idx : i <= j]>>

(* ----------------------------- role gates ------------------------------ *)

\* (a variant: a hierarchy in which Admin passes every gate)
GateAdmitsHierarchy(user, role) ==
  user # <<>> /\ (user[1].role = role \/ user[1].role = "Admin")

\* !user || user.role !== "<role>" is the rejection
GateAdmits(user, role) == user # <<>> /\ user[1].role = role

(* ----------------------------- JS numbers ------------------------------- *)
\* The strings of the model's bodies are made of digits, letters, white space,
\* "." and "e"; the conversions below are the JavaScript ones restricted to
\* those (no sign, no hexadecimal, no Infinity).

Digits == <<"0","1","2","3","4","5","6","7","8","9">>

IsDigit(c) == \E i \in 1..10 : Digits[i] = c

DigitVal(c) == (CHOOSE i \in 1..10 : Digits[i] = c) - 1

\* the value of a digit string (0 for the empty one)
RECURSIVE DigitsVal(_)
DigitsVal(s) ==
  IF s = <<>> THEN 0
  ELSE 10 * DigitsVal(SubSeq(s, 1, Len(s) - 1)) + DigitVal(s[Len(s)])

\* String(n) for an integer n >= 0
RECURSIVE NatString(_)
NatString(n) ==
  IF n < 10 THEN <<Digits[n + 1]>>
  ELSE NatString(n \div 10) \o <<Digits[(n % 10) + 1]>>

\* String(v), as a template literal or RegExp.test coerces its argument
JsString(v) ==
  CASE v.k = "num" -> NatString(v.n)
    [] v.k = "str" -> v.s
    [] OTHER -> <<"u","n","d","e","f","i","n","e","d">>

\* a number, or NaN
NaN == [n |-> 0, nan |-> TRUE]
Finite(n) == [n |-> n, nan |-> FALSE]

IsSpace(c) == c \in {" ", "\n"}

\* the string without its leading and trailing white space
RECURSIVE Trim(_)
Trim(s) ==
  IF s = <<>> THEN s
  ELSE IF IsSpace(s[1]) THEN Trim(SubSeq(s, 2, Len(s)))
  ELSE IF IsSpace(s[Len(s)]) THEN Trim(SubSeq(s, 1, Len(s) - 1))
  ELSE s

\* the position of the first character of s that is in cs, 0 if there is none
IndexOf(s, cs) ==
  IF \E i \in 1..Len(s) : s[i] \in cs
  THEN CHOOSE i \in 1..Len(s) : s[i] \in cs /\ \A j \in 1..(i-1) : s[j] \notin cs
  ELSE 0

AllDigits(s) == \A i \in 1..Len(s) : IsDigit(s[i])

\* Number(v): white space is trimmed, "" is 0, a decimal literal (digits, an
\* optional "." and fraction, an optional exponent) is its value, any other
\* string is NaN.  The n of the result is the integer part of the value.
ToNumber(v) ==
  CASE v.k = "num" -> Finite(v.n)
    [] v.k = "str" ->
         LET t    == Trim(v.s)
             e    == IndexOf(t, {"e", "E"})
             mant == IF e = 0 THEN t ELSE SubSeq(t, 1, e - 1)
             ex   == IF e = 0 THEN <<>> ELSE SubSeq(t, e + 1, Len(t))
             d    == IndexOf(mant, {"."})
             ip   == IF d = 0 THEN mant ELSE SubSeq(mant, 1, d - 1)
             fp   == IF d = 0 THEN <<>> ELSE SubSeq(mant, d + 1, Len(mant))
         IN IF t = <<>> THEN Finite(0)
            ELSE IF /\ AllDigits(ip) /\ AllDigits(fp) /\ AllDigits(ex)
                    /\ (ip # <<>> \/ fp # <<>>)
                    /\ (e = 0 \/ ex # <<>>)
                 THEN Finite(DigitsVal(ip \o [i \in 1..DigitsVal(ex) |->
                                                IF i <= Len(fp) THEN fp[i] ELSE "0"]))
                 ELSE NaN
    [] OTHER -> NaN

\* the longest prefix of digits
RECURSIVE DigitPrefix(_)
DigitPrefix(s) ==
  IF s = <<>> \/ ~IsDigit(s[1]) THEN <<>>
  ELSE <<s[1]>> \o DigitPrefix(SubSeq(s, 2, Len(s)))

\* parseInt(v): the leading digits of String(v) after its leading white
\* space, NaN when there are none
ParseInt(v) ==
  LET d == DigitPrefix(Trim(JsString(v)))
  IN IF d = <<>> THEN NaN ELSE Finite(DigitsVal(d))

\* /^\d{4}$/.test(year): without the m flag $ matches at the end of the
\* input only
YearPattern(v) ==
  LET s == JsString(v)
  IN Len(s) = 4 /\ \A i \in 1..4 : IsDigit(s[i])

MonthNames ==
  << <<"J","a","n","u","a","r","y">>, <<"F","e","b","r","u","a","r","y">>,
     <<"M","a","r","c","h">>, <<"A","p","r","i","l">>, <<"M","a","y">>,
     <<"J","u","n","e">>, <<"J","u","l","y">>, <<"A","u","g","u","s","t">>,
     <<"S","e","p","t","e","m","b","e","r">>, <<"O","c","t","o","b","e","r">>,
     <<"N","o","v","e","m","b","e","r">>, <<"D","e","c","e","m","b","e","r">> >>

\* new Date(`${month} 1, ${year}`).getMonth() + 1 for a month that is not a
\* number: the engine's date parser knows a month by the first three letters
\* of a word, in any casing, whatever letters follow; with no month it knows
\* it reads "1, <year>" as month 1 and day <year>, an Invalid Date
DateMonth(v) ==
  LET w == ToLowerCase(JsString(v))
      known == {m \in 1..12 : Len(w) >= 3
                  /\ SubSeq(w, 1, 3) = SubSeq(ToLowerCase(MonthNames[m]), 1, 3)}
  IN IF v.k = "str" /\ known # {} THEN Finite(CHOOSE m \in known : TRUE) ELSE NaN

\* isNaN(month) ? new Date(...).getMonth() + 1 : parseInt(month)
MonthNumber(month) == IF ToNumber(month).nan THEN DateMonth(month) ELSE ParseInt(month)

\* (a variant: the check without its upper end)
YearInvalidNoUpper(year) ==
  \/ ~YearPattern(year)
  \/ (~ToNumber(year).nan /\ ToNumber(year).n < 1900)

\* !/^\d{4}$/.test(year) || year < 1900 || year > 2099
YearInvalid(year) ==
  \/ ~YearPattern(year)
  \/ (~ToNumber(year).nan /\ ToNumber(year).n < 1900)
  \/ (~ToNumber(year).nan /\ ToNumber(year).n > 2099)

\* isNaN(monthNumber) || monthNumber < 1 || monthNumber > 12
MonthInvalid(m) == m.nan \/ m.n < 1 \/ m.n > 12

(* ----------------------------- the pipeline ---------------------------- *)

\* the synchronous start of a route handler, up to its first await.  ran is a
\* history field the code does not have: the handler of the request was called.
EnterHandler(called) ==
  LET q == [called EXCEPT !.ran = TRUE]
  IN
  CASE q.route = "POST /users" -> [q EXCEPT !.pc = "users_findOne"]
    [] q.route = "POST /login-check" ->
         \* email.toLowerCase() of a body without an email throws
         IF q.body.email = <<>> THEN Respond(q, 500, "Server error")
         ELSE [q EXCEPT !.pc = "login_findOne"]
    [] q.route = "PATCH /users/:id/fire" -> [q EXCEPT !.pc = "fire_updateOne"]
    [] q.route = "PATCH /users/:id/make-hr" -> [q EXCEPT !.pc = "makehr_updateOne"]
    [] q.route = "PATCH /users/:id/update-verification" ->
         [q EXCEPT !.pc = "verification_findOne"]
    [] q.route = "POST /create-payment-intent" ->
         [q EXCEPT !.pc = "paymentIntents_create", !.intents = @ + 1]
    [] q.route = "GET /users/me" -> [q EXCEPT !.pc = "me_findOne"]
    [] q.route = "GET /users/role" -> [q EXCEPT !.pc = "role_findOne"]
    [] q.route = "POST /work-sheet" -> [q EXCEPT !.pc = "ws_insertOne"]
    [] q.route = "GET /work-sheet/me" -> [q EXCEPT !.pc = "ws_find"]
    [] q.route = "PUT /work-sheet/:id" -> [q EXCEPT !.pc = "ws_updateOne"]
    [] q.route = "DELETE /work-sheet/:id" -> [q EXCEPT !.pc = "ws_deleteOne"]
    [] q.route = "GET /payments" -> [q EXCEPT !.pc = "payments_find"]
    [] q.route = "POST /payment" ->
         IF YearInvalid(q.body.year) THEN Respond(q, 400, "Invalid year")
         ELSE IF MonthInvalid(MonthNumber(q.body.month))
              THEN Respond(q, 400, "Invalid month")
              ELSE [q EXCEPT !.pc = "pay_findOne"]
    [] OTHER -> [q EXCEPT !.pc = "read"]

\* verifyFBToken up to its await: the header checks, then the token is
\* handed to admin.auth().verifyIdToken
VerifyFBToken(q) ==
  IF HeaderRejected(q.hdr) THEN Respond(q, 401, "Token missing or malformed")
  ELSE IF TokenMissing(q.hdr) THEN Respond(q, 401, "Token missing")
  ELSE [q EXCEPT !.pc = "verifyIdToken", !.calls = @ + 1]

\* (a variant: the catch answers 401, as the header checks do)
AfterVerifyUnauthorized(q, ok) ==
  IF ok
  THEN LET d == [q EXCEPT !.decoded = <<TokenEmail[TokenOf(q.hdr)[1]]>>]
       IN IF RouteGuard[q.route] = "token" THEN EnterHandler(d)
          ELSE [d EXCEPT !.pc = "gate"]
  ELSE Respond(q, 401, "Invalid token")

\* verifyFBToken after its await: req.decodedToken is set and next() runs the
\* role gate (up to its findOne) or, on a route without one, the handler;
\* the catch answers 403
AfterVerify(q, ok) ==
  IF ok
  THEN LET d == [q EXCEPT !.decoded = <<TokenEmail[TokenOf(q.hdr)[1]]>>]
       IN IF RouteGuard[q.route] = "token" THEN EnterHandler(d)
          ELSE [d EXCEPT !.pc = "gate"]
  ELSE Respond(q, 403, "Invalid token")

\* (a variant: the 403 is sent without return, and next() runs the handler)
AfterGateNoReturn(q, user) ==
  IF GateAdmits(user, RouteGuard[q.route])
  THEN EnterHandler([q EXCEPT !.gate = user])
  ELSE EnterHandler([q EXCEPT !.gate = user, !.status = 403, !.msg = "Forbidden Access"])

\* a role gate after its findOne: 403, or next() runs the handler
AfterGate(q, user) ==
  IF GateAdmits(user, RouteGuard[q.route])
  THEN EnterHandler([q EXCEPT !.gate = user])
  ELSE Respond([q EXCEPT !.gate = user], 403, "Forbidden Access")

\* a request arrives; the slots are taken in order.  seenPayments and seenUsers
\* are history fields the code does not have: how many payment records were
\* stored, and the Users collection, when the request arrived.
Receive(r, route, h, id, body) ==
  /\ req[r].pc = "idle"
  /\ r > 1 => req[r-1].pc # "idle"
  /\ LET q == [NoReq EXCEPT !.route = route, !.hdr = h, !.id = id, !.body = body,
                             !.seenPayments = Len(payments),
                             !.seenUsers = users]
     IN req' = [req EXCEPT ![r] = IF RouteGuard[route] = "none"
                                  THEN EnterHandler(q) ELSE VerifyFBToken(q)]
  /\ UNCHANGED <<users, tasks, payments>>

\* admin.auth().verifyIdToken(token) settles
VerifyIdToken(r) ==
  /\ req[r].pc = "verifyIdToken"
  /\ \E ok \in ProviderVerdicts(TokenOf(req[r].hdr)[1]) :
       req' = [req EXCEPT ![r] =
                 AfterVerify([@ EXCEPT !.idp = IF ok THEN "accepted" ELSE "rejected"], ok)]
  /\ UNCHANGED <<users, tasks, payments>>

\* verifyEmployee / verifyHR / verifyAdmin: usersCollection.findOne({ email })
\* settles.  The gates have no try/catch: a failed lookup leaves the gate by
\* an exception and the gate sends nothing.
RoleGate(r) ==
  /\ req[r].pc = "gate"
  /\ \E up \in StoreOutcomes :
       req' = [req EXCEPT ![r] =
                 IF up THEN AfterGate(@, FindUserByEmail(users, @.decoded[1]))
                 ELSE [@ EXCEPT !.pc = "escaped", !.fault = TRUE]]
  /\ UNCHANGED <<users, tasks, payments>>

\* the find / findOne of a read-only route settles
ReadFind(r) ==
  /\ req[r].pc = "read"
  /\ \E up \in StoreOutcomes :
       req' = [req EXCEPT ![r] = IF up THEN Respond(@, 200, "")
                                  ELSE Fail(@, "Server error")]
  /\ UNCHANGED <<users, tasks, payments>>

(* ----------------------------- reads of one's own ---------------------- *)

\* GET /users/me: usersCollection.findOne({ email }) settles, email being
\* req.query.email (body.email of the model); res.send(user || {}).  loc
\* holds the user sent, if any.
UsersMeFindOne(r) ==
  /\ req[r].pc = "me_findOne"
  /\ \E up \in StoreOutcomes :
       req' = [req EXCEPT ![r] =
                 IF up THEN Respond([@ EXCEPT !.loc = FindUserByEmail(users, req[r].body.email)],
                                    200, "user")
                 ELSE Fail(@, "Server error")]
  /\ UNCHANGED <<users, tasks, payments>>

\* user?.role || "Employee" (a record stored without a role has role "")
RoleReported(user) ==
  IF user = <<>> \/ user[1].role = "" THEN "Employee" ELSE user[1].role

\* GET /users/role: usersCollection.findOne({ email }) settles, email being
\* req.decodedToken.email; res.status(200).send({ role }).  msg holds the
\* role sent, loc the user found, if any.
UsersRoleFindOne(r) ==
  /\ req[r].pc = "role_findOne"
  /\ \E up \in StoreOutcomes :
       LET user == FindUserByEmail(users, req[r].decoded[1])
       IN req' = [req EXCEPT ![r] =
                    IF up THEN Respond([@ EXCEPT !.loc = user], 200, RoleReported(user))
                    ELSE Fail(@, "Failed to get role")]
  /\ UNCHANGED <<users, tasks, payments>>

\* { created_by: email }: the positions of the tasks of the email; an absent
\* query parameter matches the tasks without a created_by
TasksOf(ts, email) ==
  {i \in 1..Len(ts) : ts[i].created_by = IF email = <<>> THEN <<>> ELSE <<email>>}

\* the orders in which find(query).sort({ date: -1 }) may return the documents
\* at the positions idx: the tasks of the model carry no date, so they all
\* tie and the store is free in their order
TaskOrders(idx) ==
  { o \in [1..Cardinality(idx) -> idx] :
      \A i, j \in 1..Cardinality(idx) : i # j => o[i] # o[j] }

\* GET /work-sheet/me: find(query).sort().toArray() settles, the query being
\* { created_by: req.query.email }; list holds the positions (the _ids) of
\* the tasks sent
WsFind(r) ==
  /\ req[r].pc = "ws_find"
  /\ \E up \in StoreOutcomes :
       IF ~up THEN req' = [req EXCEPT ![r] = Fail(@, "Failed to fetch tasks")]
       ELSE \E o \in TaskOrders(TasksOf(tasks, req[r].body.email)) :
              req' = [req EXCEPT ![r] = Respond([@ EXCEPT !.list = o], 200, "tasks")]
  /\ UNCHANGED <<users, tasks, payments>>

(* ----------------------------- login-check ----------------------------- *)

Disabled == "Your account has been disabled. Please contact admin."

\* POST /login-check: usersCollection.findOne({ email: email.toLowerCase() })
\* settles; user.status of a null user throws into the catch
LoginFindOne(r) ==
  /\ req[r].pc = "login_findOne"
  /\ \E up \in StoreOutcomes :
       LET user == FindUserByEmail(users, ToLowerCase(req[r].body.email))
       IN req' = [req EXCEPT ![r] =
                    IF ~up THEN Fail(@, "Server error")
                    ELSE IF user = <<>> THEN Respond(@, 500, "Server error")
                    ELSE IF user[1].status = "fired"
                         THEN Respond([@ EXCEPT !.loc = user], 403, Disabled)
                         ELSE Respond([@ EXCEPT !.loc = user], 200, "User is active")]
  /\ UNCHANGED <<users, tasks, payments>>

(* ----------------------------- users api ------------------------------- *)

\* (a variant: the email is looked up as it was sent)
LookupEmailAsSent(body) == body.email

\* const email = userInfo.email?.toLowerCase()
LookupEmail(body) == ToLowerCase(body.email)

\* userPayload of POST /users
UserPayload(body) ==
  LET email == LookupEmail(body)
  IN IF email = AdminEmail
     THEN User(email, "Admin", body.status, TRUE, "Admin")
     ELSE User(email, body.role, body.status, body.isVerified, body.designation)

\* POST /users: usersCollection.findOne({ email }) settles
UsersFindOne(r) ==
  /\ req[r].pc = "users_findOne"
  /\ \E up \in StoreOutcomes :
       LET existingUser == FindUserByEmail(users, LookupEmail(req[r].body))
       IN req' = [req EXCEPT ![r] =
                    IF ~up THEN Fail(@, "Failed to add user")
                    ELSE IF existingUser # <<>>
                         THEN Respond([@ EXCEPT !.loc = existingUser], 409,
                                      "User with this email already exists")
                         ELSE [@ EXCEPT !.pc = "users_insertOne"]]
  /\ UNCHANGED <<users, tasks, payments>>

\* POST /users: usersCollection.insertOne(userPayload) settles
UsersInsertOne(r) ==
  /\ req[r].pc = "users_insertOne"
  /\ \E up \in StoreOutcomes :
       IF up
       THEN /\ users' = Append(users, UserPayload(req[r].body))
            /\ req' = [req EXCEPT ![r] = Respond(@, 201, "inserted")]
       ELSE /\ users' = users
            /\ req' = [req EXCEPT ![r] = Fail(@, "Failed to add user")]
  /\ UNCHANGED <<tasks, payments>>

\* (a variant: firing that leaves the role alone)
FireUpdateStatusOnly(u) == [u EXCEPT !.status = "fired"]

\* { $set: { status: "fired", role: "HR" } }
FireUpdate(u) == [u EXCEPT !.status = "fired", !.role = "HR"]

\* { $set: { role: "HR" } }
MakeHrUpdate(u) == [u EXCEPT !.role = "HR"]

\* the document of _id id, if any: _id is the position of insertion
HasUser(id) == id \in 1..Len(users)

\* PATCH /users/:id/fire: usersCollection.updateOne(filter, updateStatus) settles
FireUpdateOne(r) ==
  /\ req[r].pc = "fire_updateOne"
  /\ \E up \in StoreOutcomes :
       IF up
       THEN /\ users' = IF HasUser(req[r].id)
                        THEN [users EXCEPT ![req[r].id] = FireUpdate(@)] ELSE users
            /\ req' = [req EXCEPT ![r] =
                         Respond(@, 200, IF HasUser(req[r].id) THEN "matched 1"
                                         ELSE "matched 0")]
       ELSE /\ users' = users
            /\ req' = [req EXCEPT ![r] = Fail(@, "Failed to fire the user")]
  /\ UNCHANGED <<tasks, payments>>

\* PATCH /users/:id/make-hr: usersCollection.updateOne(filter, updateRole) settles
MakeHrUpdateOne(r) ==
  /\ req[r].pc = "makehr_updateOne"
  /\ \E up \in StoreOutcomes :
       IF up
       THEN /\ users' = IF HasUser(req[r].id)
                        THEN [users EXCEPT ![req[r].id] = MakeHrUpdate(@)] ELSE users
            /\ req' = [req EXCEPT ![r] =
                         Respond(@, 200, IF HasUser(req[r].id) THEN "matched 1"
                                         ELSE "matched 0")]
       ELSE /\ users' = users
            /\ req' = [req EXCEPT ![r] = Fail(@, "Failed to update role")]
  /\ UNCHANGED <<tasks, payments>>

\* (a variant: the flag is set, not inverted)
ToggleVerifiedSet(user) == [isVerified |-> TRUE]

\* the $set of updatedDoc: { isVerified: !user.isVerified }
ToggleVerified(user) == [isVerified |-> ~user.isVerified]

\* PATCH /users/:id/update-verification: usersCollection.findOne(filter)
\* settles; the handler reads user.isVerified, which throws when no record
\* has the _id, and hands updatedDoc to updateOne
VerificationFindOne(r) ==
  /\ req[r].pc = "verification_findOne"
  /\ \E up \in StoreOutcomes :
       req' = [req EXCEPT ![r] =
                 IF ~up THEN Fail(@, "Failed to update verified status")
                 ELSE IF ~HasUser(req[r].id)
                      THEN Respond(@, 500, "Failed to update verified status")
                      ELSE [@ EXCEPT !.loc = <<users[req[r].id]>>,
                                     !.pc = "verification_updateOne"]]
  /\ UNCHANGED <<users, tasks, payments>>

\* PATCH /users/:id/update-verification: usersCollection.updateOne(filter,
\* updatedDoc) settles
VerificationUpdateOne(r) ==
  /\ req[r].pc = "verification_updateOne"
  /\ \E up \in StoreOutcomes :
       IF up
       THEN /\ users' = IF HasUser(req[r].id)
                        THEN [users EXCEPT ![req[r].id].isVerified =
                                ToggleVerified(req[r].loc[1]).isVerified]
                        ELSE users
            /\ req' = [req EXCEPT ![r] =
                         Respond(@, 200, IF HasUser(req[r].id) THEN "matched 1"
                                         ELSE "matched 0")]
       ELSE /\ users' = users
            /\ req' = [req EXCEPT ![r] = Fail(@, "Failed to update verified status")]
  /\ UNCHANGED <<tasks, payments>>

(* ----------------------------- payment intent api ---------------------- *)

\* POST /create-payment-intent: stripe.paymentIntents.create settles
PaymentIntentsCreate(r) ==
  /\ req[r].pc = "paymentIntents_create"
  /\ \E up \in StoreOutcomes :
       req' = [req EXCEPT ![r] = IF up THEN Respond(@, 200, "clientSecret")
                                  ELSE Fail(@, "error.message")]
  /\ UNCHANGED <<users, tasks, payments>>

(* ----------------------------- tasks api ------------------------------- *)

Task(id, by, text, hours) == [created_by |-> by, task |-> text, hours |-> hours, id |-> id]

\* the positions of the documents of _id id
TaskAt(id) == {i \in 1..Len(tasks) : tasks[i].id = id}

\* the sequence without its i-th element
RemoveAt(s, i) == SubSeq(s, 1, i - 1) \o SubSeq(s, i + 1, Len(s))

\* the _id the store gives the document a request inserts: unique, as an
\* ObjectId is (every request inserts at most one document)
NewId(r) == 100 + r

\* { $set: updatedData }: every field the body carries replaces the stored one
TaskSet(t, body) ==
  [t EXCEPT !.task = body.task, !.hours = ParseInt(body.hours),
            !.created_by = IF body.created_by = <<>> THEN @ ELSE body.created_by]

\* POST /work-sheet: tasksCollection.insertOne(task) settles
WsInsertOne(r) ==
  /\ req[r].pc = "ws_insertOne"
  /\ \E up \in StoreOutcomes :
       IF up
       THEN /\ tasks' = Append(tasks, Task(NewId(r), req[r].body.created_by,
                                           req[r].body.task, ParseInt(req[r].body.hours)))
            /\ req' = [req EXCEPT ![r] = Respond(@, 201, "inserted")]
       ELSE /\ tasks' = tasks
            /\ req' = [req EXCEPT ![r] = Fail(@, "Failed to add task")]
  /\ UNCHANGED <<users, payments>>

\* PUT /work-sheet/:id: tasksCollection.updateOne(filter, updateDoc) settles
WsUpdateOne(r) ==
  /\ req[r].pc = "ws_updateOne"
  /\ \E up \in StoreOutcomes :
       IF up
       THEN /\ tasks' = [i \in 1..Len(tasks) |->
                           IF tasks[i].id = req[r].id THEN TaskSet(tasks[i], req[r].body)
                           ELSE tasks[i]]
            /\ req' = [req EXCEPT ![r] =
                         Respond(@, 200, IF TaskAt(req[r].id) # {} THEN "matched 1"
                                         ELSE "matched 0")]
       ELSE /\ tasks' = tasks
            /\ req' = [req EXCEPT ![r] = Fail(@, "Failed to update task")]
  /\ UNCHANGED <<users, payments>>

\* DELETE /work-sheet/:id: tasksCollection.deleteOne({ _id }) settles
WsDeleteOne(r) ==
  /\ req[r].pc = "ws_deleteOne"
  /\ \E up \in StoreOutcomes :
       IF up
       THEN /\ tasks' = IF TaskAt(req[r].id) # {}
                        THEN RemoveAt(tasks, CHOOSE i \in TaskAt(req[r].id) : TRUE)
                        ELSE tasks
            /\ req' = [req EXCEPT ![r] =
                         Respond(@, 200, IF TaskAt(req[r].id) # {} THEN "deleted 1"
                                         ELSE "deleted 0")]
       ELSE /\ tasks' = tasks
            /\ req' = [req EXCEPT ![r] = Fail(@, "Failed to delete task")]
  /\ UNCHANGED <<users, payments>>

(* ----------------------------- payments api ---------------------------- *)

\* paymentData after paymentData.month = monthNumber and
\* paymentData.year = parseInt(year)
PaymentDoc(body) ==
  [email |-> body.email, employeeId |-> body.employeeId,
   month |-> Num(MonthNumber(body.month).n), year |-> Num(ParseInt(body.year).n)]

\* paymentsCollection.findOne({ employeeId, month, year }) with the month and
\* year destructured from the body before the normalization: an equality
\* filter matches a stored value of the same type and content
FindPayment(ps, body) ==
  LET idx == {i \in 1..Len(ps) : /\ ps[i].employeeId = body.employeeId
                                 /\ ps[i].month = body.month
                                 /\ ps[i].year = body.year}
  IN IF idx = {} THEN <<>> ELSE <<ps[CHOOSE i \in idx : \A j \in idx : i <= j]>>

\* (a variant: a unique index on the triple that drops a second document)
InsertPaymentUnique(ps, doc) ==
  IF \E i \in 1..Len(ps) : /\ ps[i].employeeId = doc.employeeId
                           /\ ps[i].month = doc.month /\ ps[i].year = doc.year
  THEN ps ELSE Append(ps, doc)

\* paymentsCollection.insertOne(paymentData): no index constrains it
InsertPayment(ps, doc) == Append(ps, doc)

\* POST /payment: paymentsCollection.findOne settles
PayFindOne(r) ==
  /\ req[r].pc = "pay_findOne"
  /\ \E up \in StoreOutcomes :
       LET isExists == FindPayment(payments, req[r].body)
       IN req' = [req EXCEPT ![r] =
                    IF ~up THEN Fail(@, "Failed to create payment request.")
                    ELSE IF isExists # <<>>
                         THEN Respond([@ EXCEPT !.loc = isExists], 400,
                                      "Payment request for this month already exists.")
                         ELSE [@ EXCEPT !.pc = "pay_insertOne"]]
  /\ UNCHANGED <<users, tasks, payments>>

\* POST /payment: paymentsCollection.insertOne settles
PayInsertOne(r) ==
  /\ req[r].pc = "pay_insertOne"
  /\ \E up \in StoreOutcomes :
       IF up
       THEN /\ payments' = InsertPayment(payments, PaymentDoc(req[r].body))
            /\ req' = [req EXCEPT ![r] = Respond(@, 200, "inserted")]
       ELSE /\ payments' = payments
            /\ req' = [req EXCEPT ![r] =
                         Fail(@, "Failed to create payment request.")]
  /\ UNCHANGED <<users, tasks>>

\* { email }: the positions of the payments of the email
PaymentsOf(ps, email) == {i \in 1..Len(ps) : ps[i].email = email}

\* sort({ year: -1, month: -1 }): a comes before b, or they tie
SortsBefore(a, b) ==
  \/ a.year.n > b.year.n
  \/ a.year.n = b.year.n /\ a.month.n >= b.month.n

\* the orders in which find(query).sort(...) may return the documents at the
\* positions idx: every order that is descending by year, then month.  The
\* sort has no further key, so the store is free in the order of documents
\* that tie, and it may order them differently from one query to the next.
SortedOrders(ps, idx) ==
  { o \in [1..Cardinality(idx) -> idx] :
      /\ \A i, j \in 1..Cardinality(idx) : i # j => o[i] # o[j]
      /\ \A i, j \in 1..Cardinality(idx) : i < j => SortsBefore(ps[o[i]], ps[o[j]]) }

\* const { page = 1, limit = 5 } = req.query; parseInt(page), parseInt(limit)
\* (the query parameters of the model are absent or digit strings)
PageOf(body) == IF body.page = Undef THEN 1 ELSE ParseInt(body.page).n
LimitOf(body) == IF body.limit = Undef THEN 5 ELSE ParseInt(body.limit).n

\* .skip(skip).limit(limitNum) of the sorted documents
SkipLimit(o, skip, limitNum) ==
  SubSeq(o, skip + 1, IF skip + limitNum < Len(o) THEN skip + limitNum ELSE Len(o))

\* GET /payments: find(query).sort().skip().limit().toArray() settles; list
\* holds the positions (the _ids) of the documents returned
PaymentsFind(r) ==
  /\ req[r].pc = "payments_find"
  /\ \E up \in StoreOutcomes :
       IF ~up THEN req' = [req EXCEPT ![r] = Fail(@, "Failed to fetch payments")]
       ELSE \E o \in SortedOrders(payments, PaymentsOf(payments, req[r].body.email)) :
              req' = [req EXCEPT ![r] =
                        [@ EXCEPT !.pc = "payments_countDocuments",
                                  !.list = SkipLimit(o, (PageOf(req[r].body) - 1)
                                                          * LimitOf(req[r].body),
                                                     LimitOf(req[r].body))]]
  /\ UNCHANGED <<users, tasks, payments>>

\* GET /payments: countDocuments(query) settles; res.send({ payments, total })
PaymentsCountDocuments(r) ==
  /\ req[r].pc = "payments_countDocuments"
  /\ \E up \in StoreOutcomes :
       req' = [req EXCEPT ![r] =
                 IF up THEN Respond([@ EXCEPT !.total =
                                       Cardinality(PaymentsOf(payments, req[r].body.email))],
                                    200, "payments, total")
                 ELSE Fail([@ EXCEPT !.list = <<>>], "Failed to fetch payments")]
  /\ UNCHANGED <<users, tasks, payments>>

(* ----------------------------- initial stores -------------------------- *)

SeedAdmin == User(AdminEmail, "Admin", "active", TRUE, "Admin")
SeedHR    == User(HrEmail, "HR", "active", TRUE, "Dev")
SeedEmp   == User(EmpEmail, "Employee", "active", FALSE, "Dev")
SeedEmp2  == User(Emp2Email, "Employee", "active", TRUE, "Dev")

(* ----------------------------- the access-control pipeline ------------- *)

\* one read-only route behind each gate
AuthRoutes == {"GET /users/employees", "GET /users/verified", "GET /work-sheet/me"}

AuthHeaders ==
  { <<>>,                                       \* no Authorization header
    << <<>> >>,                                 \* ""
    <<Bearer>>,                                 \* "Bearer"
    <<Bearer \o <<" ">> >>,                     \* "Bearer "
    <<Bearer \o <<" ", " ", "3">> >>,           \* "Bearer  3"
    << <<"B","a","s","i","c"," ","3">> >>,      \* "Basic 3"
    << <<"b","e","a","r","e","r"," ","3">> >>,  \* "bearer 3"
    << <<" ">> \o Bearer \o <<" ","3">> >>,     \* " Bearer 3"
    BearerHdr(<<"1">>), BearerHdr(<<"2">>), BearerHdr(<<"3">>), BearerHdr(<<"4">>),
    BearerHdr(<<"9">>) }                        \* a token nobody issued

InitAuth ==
  /\ users = <<SeedAdmin, SeedHR, SeedEmp>>
  /\ tasks = <<>>
  /\ payments = <<>>
  /\ req = [r \in Reqs |-> NoReq]

\* headers that begin with "Bearer" and are not "Bearer <token>"
OddHeaders ==
  { <<Bearer \o <<" ","3"," ","x">> >>,         \* "Bearer 3 x"
    <<Bearer \o <<"X"," ","3">> >> }            \* "BearerX 3"

ReceiveAuth(r) ==
  \/ \E route \in AuthRoutes, h \in AuthHeaders : Receive(r, route, h, 0, NoBody)
  \/ \E h \in OddHeaders : Receive(r, "GET /users/employees", h, 0, NoBody)

NextAuth ==
  \E r \in Reqs :
    ReceiveAuth(r) \/ VerifyIdToken(r) \/ RoleGate(r) \/ ReadFind(r) \/ WsFind(r)

SpecAuth == InitAuth /\ [][NextAuth]_vars

(* ----------------------------- claims: the pipeline -------------------- *)

Received(r) == req[r].pc # "idle"

Guarded(r) == RouteGuard[req[r].route] # "none"

\* the header has a first space that is followed by a character other than a
\* space: "Bearer <token>" has a token segment
HasTokenSegment(s) ==
  \E i \in 1..Len(s) :
    /\ s[i] = " "
    /\ \A j \in 1..(i-1) : s[j] # " "
    /\ i < Len(s)
    /\ s[i+1] # " "

\* the Authorization header is absent, does not start with "Bearer", or has
\* an empty token segment
BadCredential(h) ==
  \/ h = <<>>
  \/ Len(h[1]) < 6
  \/ \E i \in 1..6 : h[1][i] # Bearer[i]
  \/ ~HasTokenSegment(h[1])

\* the gate (not the verifier, not the handler) answered the request
GateRejected(q) == q.pc = "done" /\ q.status = 403 /\ q.msg = "Forbidden Access"

\* C1: a role gate admits a verified principal only if a User record with the
\* principal's email and exactly the gate's role exists; when no record with
\* that email has the gate's role (no record at all, or any other role,
\* Admin at an HR-only or Employee-only gate included) the answer is 403.
C1_RoleGateExactMatch ==
  [][\A r \in Reqs :
       (req[r].pc = "gate" /\ req'[r].pc \notin {"gate", "escaped"}) =>
         LET role  == RouteGuard[req[r].route]
             match == {i \in 1..Len(users) : users[i].email = req[r].decoded[1]}
         IN /\ ~GateRejected(req'[r]) => \E i \in match : users[i].role = role
            /\ (\A i \in match : users[i].role # role) => GateRejected(req'[r])]_vars

\* an Admin was answered 403 at the HR-only gate, an Employee passed the
\* Employee-only gate, and a principal without a record was answered 403
C1_Witness ==
  \E r, t \in Reqs :
    /\ req[r].route = "GET /users/employees" /\ req[r].decoded = <<AdminEmail>>
    /\ req[r].gate = <<SeedAdmin>> /\ GateRejected(req[r])
    /\ req[t].route = "GET /work-sheet/me" /\ req[t].decoded = <<EmpEmail>>
    /\ req[t].gate = <<SeedEmp>> /\ req[t].pc = "ws_find"

\* C2: on a guarded route a request whose Authorization header is absent,
\* does not start with Bearer, or has an empty token segment is answered 401
\* and its token is never submitted to the identity provider.
C2_BadCredentialUnauthorized ==
  \A r \in Reqs :
    (Received(r) /\ Guarded(r) /\ BadCredential(req[r].hdr)) =>
      (req[r].pc = "done" /\ req[r].status = 401 /\ req[r].calls = 0 /\ req[r].idp = "")

\* "Bearer " (an empty token segment) and a missing header were both answered 401
C2_Witness ==
  \E r, t \in Reqs :
    /\ req[r].hdr = <<Bearer \o <<" ">> >> /\ req[r].status = 401
    /\ req[t].hdr = <<>> /\ Received(t) /\ req[t].status = 401

\* C3: a request with a well-formed bearer token submits it to the identity
\* provider on that request, whatever earlier requests did with the same
\* token; a rejection is answered 403; only an acceptance attaches the decoded
\* principal and lets the next pipeline step run.
C3_VerifyEveryRequest ==
  \A r \in Reqs :
    (Received(r) /\ Guarded(r) /\ ~BadCredential(req[r].hdr)) =>
      /\ req[r].calls = 1
      /\ req[r].pc = "verifyIdToken" <=> req[r].idp = ""
      /\ req[r].idp = "rejected" =>
           (req[r].pc = "done" /\ req[r].status = 403 /\ req[r].decoded = <<>>
              /\ req[r].gate = <<>>)
      /\ req[r].idp = "accepted" =>
           /\ TokenOf(req[r].hdr)[1] \in DOMAIN TokenEmail
           /\ req[r].decoded = <<TokenEmail[TokenOf(req[r].hdr)[1]]>>
      /\ req[r].pc \in {"gate", "read", "ws_find", "escaped"} => req[r].idp = "accepted"

\* the same token on two requests: accepted on the first, which went on to the
\* gate, and submitted again and rejected (expired) on the second
C3_Witness ==
  /\ req[1].hdr = BearerHdr(<<"3">>) /\ req[2].hdr = BearerHdr(<<"3">>)
  /\ req[1].idp = "accepted" /\ req[1].decoded = <<EmpEmail>> /\ req[1].pc = "ws_find"
  /\ req[2].idp = "rejected" /\ req[2].status = 403 /\ req[2].calls = 1

\* C12: no failure of a store or provider call leaves the pipeline uncaught:
\* a request whose call failed is answered by the code that made the call.
\* (The role gates await usersCollection.findOne outside any try/catch: when
\* the lookup fails the gate neither answers nor calls next().)
C12_NoFailureEscapes ==
  \A r \in Reqs : req[r].pc # "escaped"

(* ----------------------------- the users routes ------------------------ *)

\* the bodies of POST /users: a new email in two casings, the email of a
\* stored record in another casing, and the bootstrap address in another casing
UserBodies ==
  { [NoBody EXCEPT !.email = c[1], !.role = c[2], !.status = "active",
                   !.designation = "Dev"] :
      c \in { <<NewEmail, "Employee">>,
              <<<<"G","@","X">>, "Admin">>,
              <<<<"E","@","x">>, "Employee">>,
              <<<<"A","d","m","i","n","@","G","m","a","i","l",".","c","o","m">>,
                "Employee">> } }

\* route, Authorization header and _id of the guarded requests: the Admin
\* fires or promotes a stored user (1 the Admin, 3 the Employee) or an _id of
\* no record (9); the Employee tries to; both, and a caller without a header,
\* read behind the HR gate; the Employee reads behind the Employee gate
UserCalls ==
  { <<"PATCH /users/:id/fire", BearerHdr(<<"1">>), 1>>,
    <<"PATCH /users/:id/fire", BearerHdr(<<"1">>), 3>>,
    <<"PATCH /users/:id/fire", BearerHdr(<<"1">>), 9>>,
    <<"PATCH /users/:id/fire", BearerHdr(<<"3">>), 3>>,
    <<"PATCH /users/:id/make-hr", BearerHdr(<<"1">>), 3>>,
    <<"GET /users/employees", BearerHdr(<<"1">>), 0>>,
    <<"GET /users/employees", BearerHdr(<<"3">>), 0>>,
    <<"GET /users/employees", <<>>, 0>>,
    <<"GET /work-sheet/me", BearerHdr(<<"3">>), 0>> }

Init ==
  /\ users = <<SeedAdmin, SeedHR, SeedEmp>>
  /\ tasks = <<>>
  /\ payments = <<>>
  /\ req = [r \in Reqs |-> NoReq]

ReceiveUsers(r) ==
  \/ \E b \in UserBodies : Receive(r, "POST /users", <<>>, 0, b)
  \/ \E c \in UserCalls : Receive(r, c[1], c[2], c[3], NoBody)

Next ==
  \E r \in Reqs :
    \/ ReceiveUsers(r) \/ VerifyIdToken(r) \/ RoleGate(r) \/ ReadFind(r) \/ WsFind(r)
    \/ UsersFindOne(r) \/ UsersInsertOne(r) \/ FireUpdateOne(r) \/ MakeHrUpdateOne(r)

Spec == Init /\ [][Next]_vars

(* ----------------------------- claims: users --------------------------- *)

\* C4: once PATCH /users/:id/fire has completed for a user, no role gate
\* admits a request of that user: a gate that finds a fired record answers 403.
\* (The code admits it: the record's role is set to HR and the gates read only
\* the role.)
C4_FiredNeverAdmitted ==
  \A r \in Reqs :
    (req[r].gate # <<>> /\ req[r].gate[1].status = "fired") => GateRejected(req[r])

\* C8: the Users collection holds at most one record per lower-cased email.
\* (The code's findOne-then-insertOne lets two concurrent registrations of one
\* email both insert.)
C8_EmailUnique ==
  \A i, j \in 1..Len(users) :
    ToLowerCase(users[i].email) = ToLowerCase(users[j].email) => i = j

\* two strings that differ at most in the casing of their letters
SameIgnoringCase(a, b) ==
  Len(a) = Len(b) /\ \A i \in 1..Len(a) : LowerChar(a[i]) = LowerChar(b[i])

\* C9: when POST /users looks up an email of which a record is stored, in
\* whatever casing the request writes it, the answer is 409 and the Users
\* collection is left as it is; and a stored record keeps its email, so an
\* email stored when the request arrives is still stored at the lookup.
C9_DuplicateEmailConflict ==
  [][/\ \A r \in Reqs :
          ( /\ req[r].pc = "users_findOne" /\ req'[r].pc # "users_findOne"
            /\ req'[r].status # 500
            /\ \E i \in 1..Len(users) :
                 SameIgnoringCase(users[i].email, req[r].body.email) )
          => (req'[r].pc = "done" /\ req'[r].status = 409 /\ users' = users)
     /\ \A i \in 1..Len(users) :
          i <= Len(users') /\ users'[i].email = users[i].email]_vars

\* "E@x" was sent while e@x was stored, and was answered 409
C9_Witness ==
  \E r \in Reqs :
    /\ req[r].route = "POST /users" /\ req[r].body.email = <<"E","@","x">>
    /\ req[r].status = 409 /\ req[r].loc = <<SeedEmp>>
    /\ users[3] = SeedEmp

\* C10: an admitted PATCH /users/:id/fire on an existing user sets that
\* user's status to "fired" and role to "HR", whatever they were, and changes
\* no other field of it and no other User record.
C10_FireEffect ==
  [][\A r \in Reqs :
       ( /\ req[r].pc = "fire_updateOne" /\ req'[r].status = 200
         /\ req[r].id \in 1..Len(users) )
       => /\ Len(users') = Len(users)
          /\ users'[req[r].id] =
               [users[req[r].id] EXCEPT !.status = "fired", !.role = "HR"]
          /\ \A i \in 1..Len(users) : i # req[r].id => users'[i] = users[i]]_vars

\* the Employee and the Admin of the seeded store have both been fired
C10_Witness ==
  /\ Len(users) = 3
  /\ users[3] = [SeedEmp EXCEPT !.status = "fired", !.role = "HR"]
  /\ users[1] = [SeedAdmin EXCEPT !.status = "fired", !.role = "HR"]
  /\ users[2] = SeedHR
  /\ \A r \in Reqs : req[r].route = "PATCH /users/:id/fire" /\ req[r].status = 200

\* C21: the record a POST /users stores has role Admin, designation Admin and
\* isVerified true when the lower-cased email of the request is the bootstrap
\* address, whatever the body says, and a role other than Admin when it is any
\* other email, whatever role the body supplies.
\* (The code spreads the body into the record: { email: "G@X", role: "Admin" }
\* is stored with role Admin.)
C21_AdminOnlyBootstrap ==
  [][\A r \in Reqs :
       (req[r].pc = "users_insertOne" /\ req'[r].status = 201)
       => /\ Len(users') = Len(users) + 1
          /\ LET stored == users'[Len(users')]
             IN IF ToLowerCase(req[r].body.email) = AdminEmail
                THEN /\ stored.role = "Admin" /\ stored.designation = "Admin"
                     /\ stored.isVerified
                ELSE stored.role # "Admin"]_vars

(* ----------------------------- the login check ------------------------ *)

\* the record POST /users stores for { email: "g@x", role: "Employee" }
SeedNew == User(NewEmail, "Employee", "active", FALSE, "Dev")

\* the seeded store, and the store two concurrent registrations of g@x leave
\* behind (each found no record and each inserted: _id 4 and _id 5)
InitLogin ==
  /\ users \in { <<SeedAdmin, SeedHR, SeedEmp>>,
                 <<SeedAdmin, SeedHR, SeedEmp, SeedNew, SeedNew>> }
  /\ tasks = <<>>
  /\ payments = <<>>
  /\ req = [r \in Reqs |-> NoReq]

\* the bodies of POST /login-check: stored emails in two casings, an email of
\* no record, and a body without an email
LoginBodies ==
  { [NoBody EXCEPT !.email = e] :
      e \in { EmpEmail, <<"E","@","X">>, NewEmail, <<"G","@","x">>,
              <<"n","@","x">>, <<>> } }

\* the Admin fires or promotes the Employee (_id 3) or a record of g@x
LoginCalls ==
  { <<"PATCH /users/:id/fire", 3>>, <<"PATCH /users/:id/fire", 4>>,
    <<"PATCH /users/:id/fire", 5>>, <<"PATCH /users/:id/make-hr", 3>> }

ReceiveLogin(r) ==
  \/ \E b \in LoginBodies : Receive(r, "POST /login-check", <<>>, 0, b)
  \/ \E c \in LoginCalls : Receive(r, c[1], BearerHdr(<<"1">>), c[2], NoBody)

NextLogin ==
  \E r \in Reqs :
    \/ ReceiveLogin(r) \/ VerifyIdToken(r) \/ RoleGate(r) \/ LoginFindOne(r)
    \/ FireUpdateOne(r) \/ MakeHrUpdateOne(r)

SpecLogin == InitLogin /\ [][NextLogin]_vars

(* ----------------------------- claims: login check --------------------- *)

\* C11: a POST /login-check that arrives after a user was fired and names that
\* user's email, in whatever casing, is answered 403 with the account-disabled
\* message (unless the lookup itself fails).  (The code looks the user up by
\* email and reads the first record of that email, while fire updates a record
\* by _id: of two records of one email, firing the second leaves the
\* login-check answering "User is active".)
C11_FiredLoginRejected ==
  \A r \in Reqs :
    ( /\ req[r].route = "POST /login-check" /\ req[r].pc = "done"
      /\ req[r].status # 500
      /\ \E i \in 1..Len(req[r].seenUsers) :
           /\ req[r].seenUsers[i].status = "fired"
           /\ SameIgnoringCase(req[r].seenUsers[i].email, req[r].body.email) )
    => (req[r].status = 403 /\ req[r].msg = Disabled)

(* ----------------------------- the work-sheet routes ------------------- *)

SeedTask == Task(1, <<EmpEmail>>, "a", Finite(8))

\* the body of POST and PUT /work-sheet; a PUT body may leave created_by out
TaskBody(by) == [NoBody EXCEPT !.created_by = by, !.task = "b", !.hours = Str(<<"3">>)]

\* the HR and the two Employees, on the seeded task (_id 1)
TaskHeaders == { BearerHdr(<<"2">>), BearerHdr(<<"3">>), BearerHdr(<<"4">>) }

InitTasks ==
  /\ users = <<SeedAdmin, SeedHR, SeedEmp, SeedEmp2>>
  /\ tasks \in { <<>>, <<SeedTask>> }
  /\ payments = <<>>
  /\ req = [r \in Reqs |-> NoReq]

ReceiveTasks(r) ==
  \E h \in TaskHeaders :
    \/ Receive(r, "POST /work-sheet", h, 0, TaskBody(<<EmpEmail>>))
    \/ \E by \in { <<>>, <<EmpEmail>> } : Receive(r, "PUT /work-sheet/:id", h, 1, TaskBody(by))
    \/ Receive(r, "DELETE /work-sheet/:id", h, 1, NoBody)

NextTasks ==
  \E r \in Reqs :
    \/ ReceiveTasks(r) \/ VerifyIdToken(r) \/ RoleGate(r)
    \/ WsInsertOne(r) \/ WsUpdateOne(r) \/ WsDeleteOne(r)

SpecTasks == InitTasks /\ [][NextTasks]_vars

(* ----------------------------- claims: tasks --------------------------- *)

Range(s) == {s[i] : i \in 1..Len(s)}

\* the task documents that a step created, changed or removed, before and after
TouchedTasks == (Range(tasks) \cup Range(tasks')) \ (Range(tasks) \cap Range(tasks'))

\* C5: a step that creates, changes or removes a task belongs to a request whose
\* verified email is the created_by of every task document it touches, and
\* never to a request of an HR principal.  (The code checks the Employee role
\* only: any Employee updates or deletes any task by _id, and inserts a task
\* under any created_by.)
C5_TaskOwnership ==
  [][\A r \in Reqs :
       (req[r].pc \in {"ws_insertOne", "ws_updateOne", "ws_deleteOne"}
          /\ req'[r].pc = "done")
       => /\ \A t \in TouchedTasks : t.created_by = req[r].decoded
          /\ TouchedTasks # {} => req[r].gate[1].role # "HR"]_vars

(* ----------------------------- the payment route ----------------------- *)

July == <<"J","u","l","y">>

\* month 7 as a number, a digit string and a name
PayMonths == { Num(7), Str(<<"7">>), Str(July) }

\* 2024 as a number and as a string
PayYears == { Num(2024), Str(<<"2","0","2","4">>) }

PayBody(m, y) ==
  [NoBody EXCEPT !.employeeId = "u3", !.email = EmpEmail, !.month = m, !.year = y]

\* every form of July 2024, a month out of range and a two-digit year
PayBodies ==
  { PayBody(m, y) : m \in PayMonths, y \in PayYears }
  \cup { PayBody(Num(13), Num(2024)), PayBody(Num(7), Str(<<"2","4">>)) }

InitPay ==
  /\ users = <<SeedAdmin, SeedHR, SeedEmp>>
  /\ tasks = <<>>
  /\ payments = <<>>
  /\ req = [r \in Reqs |-> NoReq]

\* the HR sends any of the bodies; the Employee tries one
ReceivePay(r) ==
  \/ \E b \in PayBodies : Receive(r, "POST /payment", BearerHdr(<<"2">>), 0, b)
  \/ Receive(r, "POST /payment", BearerHdr(<<"3">>), 0, PayBody(Num(7), Num(2024)))

NextPay ==
  \E r \in Reqs :
    \/ ReceivePay(r) \/ VerifyIdToken(r) \/ RoleGate(r)
    \/ PayFindOne(r) \/ PayInsertOne(r)

SpecPay == InitPay /\ [][NextPay]_vars

(* ----------------------------- the forms of month and year ------------ *)

\* month inputs, sent with the year 2024: integers in and out of range,
\* digit strings, names in several writings, non-integer numerics, words that
\* are no month, the empty string and a missing month
FormMonths ==
  { Num(1), Num(12), Num(0), Num(13),
    Str(<<"1","2">>), Str(<<"0","7">>), Str(<<"1","3">>),
    Str(July), Str(<<"j","u","l","y">>), Str(MonthNames[12]),
    Str(<<"7",".","5">>), Str(<<"1","e","1">>),
    Str(<<"J","u","l","i","u","s">>), Str(<<"f","o","o">>),
    Str(<<>>), Undef }

\* year inputs, sent with the month 7: the ends of the range and their
\* neighbours as numbers, digit strings of four and of other lengths, four
\* digits with white space or a line end, a word and a missing year
FormYears ==
  { Num(1899), Num(1900), Num(2099), Num(2100), Num(24), Num(20245),
    Str(<<"1","9","0","0">>), Str(<<"2","1","0","0">>), Str(<<"0","2","4">>),
    Str(<<"2","0","2","4","5">>), Str(<<"2","0","2","4","\n">>),
    Str(<<" ","2","0","2","4">>), Str(<<"y","e","a","r">>), Str(<<>>), Undef }

FormBodies ==
  { PayBody(m, Num(2024)) : m \in FormMonths } \cup { PayBody(Num(7), y) : y \in FormYears }

\* the HR sends one request in any of the forms; the requests beside it are
\* payments of July 2024 and of July 2100
ReceivePayForm(r) ==
  \/ r = 1 /\ \E b \in FormBodies : Receive(r, "POST /payment", BearerHdr(<<"2">>), 0, b)
  \/ r > 1 /\ \E y \in {2024, 2100} :
                Receive(r, "POST /payment", BearerHdr(<<"2">>), 0, PayBody(Num(7), Num(y)))

NextPayForm ==
  \E r \in Reqs :
    \/ ReceivePayForm(r) \/ VerifyIdToken(r) \/ RoleGate(r)
    \/ PayFindOne(r) \/ PayInsertOne(r)

SpecPayForm == InitPay /\ [][NextPayForm]_vars

(* ----------------------------- claims: payments ------------------------ *)

\* the body's year and month pass the validation
PayValid(body) == ~YearInvalid(body.year) /\ ~MonthInvalid(MonthNumber(body.month))

\* the stored payment is of the employee, month and year the body normalizes to
SameTriple(p, body) ==
  /\ p.employeeId = body.employeeId
  /\ p.month = Num(MonthNumber(body.month).n)
  /\ p.year = Num(ParseInt(body.year).n)

\* the handler of POST /payment ran to an answer of its own (not 401/403, not
\* the 500 of a failed store call)
PayAnswered(r) ==
  /\ req[r].route = "POST /payment" /\ req[r].pc = "done"
  /\ req[r].status \in {200, 400}

\* C6: a POST /payment that arrives when a payment of the same employeeId and
\* the same normalized month and year is already stored, in whatever accepted
\* form it writes month and year, is answered with the 400 duplicate message.
\* (The code looks the triple up with the month and year as sent, not as
\* stored, so only a body that sends both as numbers is recognised.)
C6_SequentialDuplicateRejected ==
  \A r \in Reqs :
    ( /\ PayAnswered(r) /\ PayValid(req[r].body)
      /\ \E i \in 1..req[r].seenPayments : SameTriple(payments[i], req[r].body) )
    => (req[r].status = 400
          /\ req[r].msg = "Payment request for this month already exists.")

\* C7: the existence check and the insert are two steps with nothing atomic
\* between them: whenever two POST /payment requests of one triple have both
\* been answered as inserted, the Payments collection holds two records of
\* that triple.
C7_RaceLeavesDuplicate ==
  \A r, t \in Reqs :
    ( /\ r # t
      /\ PayAnswered(r) /\ req[r].status = 200
      /\ PayAnswered(t) /\ req[t].status = 200
      /\ PaymentDoc(req[r].body) = PaymentDoc(req[t].body) )
    => Cardinality({i \in 1..Len(payments) : SameTriple(payments[i], req[r].body)}) >= 2

\* two requests that send month 7 and year 2024 as numbers, the form the
\* existence check does recognise once a record is stored, both arrived before
\* any payment was stored, both passed the check and both inserted
C7_Witness ==
  /\ req[1].body.month = Num(7) /\ req[1].body.year = Num(2024)
  /\ req[2].body = req[1].body
  /\ req[1].seenPayments = 0 /\ req[2].seenPayments = 0
  /\ PayAnswered(1) /\ req[1].status = 200
  /\ PayAnswered(2) /\ req[2].status = 200
  /\ Len(payments) = 2 /\ payments[1] = payments[2]
  /\ SameTriple(payments[1], req[1].body)

\* the year a year input denotes: a number or a string written as exactly four
\* digits, of a value in [1900, 2099]
YearDenoted(v) ==
  LET w == JsString(v)
  IN IF v.k # "undef" /\ Len(w) = 4 /\ (\A i \in 1..4 : IsDigit(w[i]))
        /\ DigitsVal(w) \in 1900..2099
     THEN <<DigitsVal(w)>> ELSE <<>>

\* the month a month input denotes: an integer in [1,12] given as a number or
\* as a string of digits, or an English month name in any casing
MonthDenoted(v) ==
  CASE v.k = "num" -> IF v.n \in 1..12 THEN <<v.n>> ELSE <<>>
    [] v.k = "str" ->
         IF v.s # <<>> /\ (\A i \in 1..Len(v.s) : IsDigit(v.s[i]))
         THEN IF DigitsVal(v.s) \in 1..12 THEN <<DigitsVal(v.s)>> ELSE <<>>
         ELSE IF \E m \in 1..12 : SameIgnoringCase(v.s, MonthNames[m])
              THEN <<CHOOSE m \in 1..12 : SameIgnoringCase(v.s, MonthNames[m])>>
              ELSE <<>>
    [] OTHER -> <<>>

\* C13: a POST /payment with a valid year that the handler answers itself is
\* answered 400 unless its month is an English month name or an integer in
\* [1,12], and when it is answered as inserted the stored month is the integer
\* the input denotes.  (The code takes parseInt of every month that Number()
\* can read, so "7.5" is stored as 7 and "1e1" as 1; and the date parser
\* reads any word that begins like a month name, so "Julius" is stored as 7.)
C13_MonthNormalized ==
  \A r \in Reqs :
    (PayAnswered(r) /\ YearDenoted(req[r].body.year) # <<>>)
    => LET m == MonthDenoted(req[r].body.month)
       IN /\ m = <<>> => req[r].status = 400
          /\ (m # <<>> /\ req[r].status = 200) =>
               \E i \in (req[r].seenPayments + 1)..Len(payments) :
                 payments[i].month = Num(m[1])

InvalidYear == "Invalid year"

\* C14: a POST /payment whose year is not written as exactly four digits, or
\* is outside [1900, 2099], or is missing, never reaches the store: once the
\* gate has admitted it, it is answered 400 "Invalid year" and it inserts
\* nothing; a request answered as inserted stored the integer its year denotes,
\* and every stored year is an integer in [1900, 2099].
C14_YearValidated ==
  /\ \A r \in Reqs :
       req[r].route = "POST /payment" =>
         LET y == YearDenoted(req[r].body.year)
         IN /\ y = <<>> =>
                 /\ req[r].pc \notin {"pay_findOne", "pay_insertOne"}
                 /\ req[r].status # 200
                 /\ GateAdmits(req[r].gate, "HR") =>
                      (req[r].pc = "done" /\ req[r].status = 400
                         /\ req[r].msg = InvalidYear)
            /\ req[r].status = 200 =>
                 \E i \in (req[r].seenPayments + 1)..Len(payments) :
                   payments[i].year = Num(y[1])
  /\ \A i \in 1..Len(payments) :
       payments[i].year.k = "num" /\ payments[i].year.n \in 1900..2099

\* the year "1900", a string, was stored as the integer 1900, and the year
\* 2100 was answered 400 after the gate had admitted the request
C14_Witness ==
  /\ req[1].body.year = Str(<<"1","9","0","0">>) /\ req[1].status = 200
  /\ \E i \in 1..Len(payments) : payments[i].year = Num(1900)
  /\ req[2].body.year = Num(2100) /\ GateAdmits(req[2].gate, "HR")
  /\ req[2].pc = "done" /\ req[2].status = 400 /\ req[2].msg = InvalidYear

(* ----------------------------- ids of no record ------------------------ *)

InitIds ==
  /\ users = <<SeedAdmin, SeedHR, SeedEmp>>
  /\ tasks = <<SeedTask>>
  /\ payments = <<>>
  /\ req = [r \in Reqs |-> NoReq]

\* route, Authorization header and _id: each update or delete route by a
\* principal its gate admits, on a stored record (user 3, task 1) and on an
\* _id of no record (9)
IdCalls ==
  { <<"PATCH /users/:id/update-verification", BearerHdr(<<"2">>), 3>>,
    <<"PATCH /users/:id/update-verification", BearerHdr(<<"2">>), 9>>,
    <<"PATCH /users/:id/make-hr", BearerHdr(<<"1">>), 9>>,
    <<"PATCH /users/:id/fire", BearerHdr(<<"1">>), 9>>,
    <<"PUT /work-sheet/:id", BearerHdr(<<"3">>), 9>>,
    <<"DELETE /work-sheet/:id", BearerHdr(<<"3">>), 1>>,
    <<"DELETE /work-sheet/:id", BearerHdr(<<"3">>), 9>> }

ReceiveIds(r) ==
  \E c \in IdCalls : Receive(r, c[1], c[2], c[3], TaskBody(<<>>))

NextIds ==
  \E r \in Reqs :
    \/ ReceiveIds(r) \/ VerifyIdToken(r) \/ RoleGate(r)
    \/ VerificationFindOne(r) \/ VerificationUpdateOne(r)
    \/ FireUpdateOne(r) \/ MakeHrUpdateOne(r)
    \/ WsUpdateOne(r) \/ WsDeleteOne(r)

SpecIds == InitIds /\ [][NextIds]_vars

(* ----------------------------- claims: ids of no record ---------------- *)

\* the _id of the request is the _id of no record, now or at any time before
NoRecordOfId(q) ==
  IF q.route \in {"PUT /work-sheet/:id", "DELETE /work-sheet/:id"}
  THEN q.id # SeedTask.id /\ TaskAt(q.id) = {}
  ELSE q.id \notin 1..Len(users)

\* C15: an admitted update or delete request whose _id matches no record, and
\* whose store calls all succeed, is answered 200 with a zero-effect result.
\* (PATCH update-verification reads user.isVerified of the null that findOne
\* returns: the TypeError is caught and answered 500.)
C15_MissingIdNoOp ==
  \A r \in Reqs :
    ( /\ req[r].ran /\ req[r].pc = "done" /\ ~req[r].fault
      /\ req[r].route \in {"PATCH /users/:id/update-verification",
                            "PATCH /users/:id/make-hr", "PATCH /users/:id/fire",
                            "PUT /work-sheet/:id", "DELETE /work-sheet/:id"}
      /\ NoRecordOfId(req[r]) )
    => (req[r].status = 200 /\ req[r].msg \in {"matched 0", "deleted 0"})

(* ----------------------------- the payments listing -------------------- *)

Payment(id, email, m, y) ==
  [email |-> email, employeeId |-> id, month |-> Num(m), year |-> Num(y)]

\* the payments of e@x for July and June 2024 and one of h@x; and the same
\* with a second record of e@x for July 2024 (the record a resubmission of
\* month "July" leaves)
InitList ==
  /\ users = <<SeedAdmin, SeedHR, SeedEmp>>
  /\ tasks = <<>>
  /\ payments \in
       { << Payment("u3", EmpEmail, 7, 2024), Payment("u3", EmpEmail, 6, 2024),
            Payment("u2", HrEmail, 7, 2024) >>,
         << Payment("u3", EmpEmail, 7, 2024), Payment("u3", EmpEmail, 6, 2024),
            Payment("u2", HrEmail, 7, 2024), Payment("u3", EmpEmail, 7, 2024) >> }
  /\ req = [r \in Reqs |-> NoReq]

\* the query of GET /payments: page absent, "1", "2" or "3"; limit absent,
\* "1" or "2"
ListQueries ==
  { [NoBody EXCEPT !.email = EmpEmail, !.page = pg, !.limit = lm] :
      pg \in { Undef, Str(<<"1">>), Str(<<"2">>), Str(<<"3">>) },
      lm \in { Undef, Str(<<"1">>), Str(<<"2">>) } }

\* the Employee e@x lists the payments
ReceiveList(r) ==
  \E q \in ListQueries : Receive(r, "GET /payments", BearerHdr(<<"3">>), 0, q)

NextList ==
  \E r \in Reqs :
    \/ ReceiveList(r) \/ VerifyIdToken(r) \/ RoleGate(r)
    \/ PaymentsFind(r) \/ PaymentsCountDocuments(r)

SpecList == InitList /\ [][NextList]_vars

(* ----------------------------- claims: the payments listing ------------ *)

Listed(r) == req[r].route = "GET /payments" /\ req[r].pc = "done" /\ req[r].status = 200

\* C16: GET /payments of an email, page p and limit L answers with total the
\* number of the email's payments and with the payments at the positions
\* (p-1)L+1 .. min(pL, total) of an ordering of them by year descending, then
\* month descending; and the pages of one email and one limit, taken while the
\* store does not change, share no payment, pages 1 and 2 holding every
\* payment when total <= 2L.  (The sort has no key beyond year and month: two
\* payments of one email, year and month tie, the store may order them
\* differently in the query of each page, and one of them is then returned on
\* two pages and the other on none.)
C16_Pagination ==
  /\ \A r \in Reqs :
       Listed(r) =>
         LET idx   == PaymentsOf(payments, req[r].body.email)
             total == Cardinality(idx)
             first == (PageOf(req[r].body) - 1) * LimitOf(req[r].body)
             last  == IF first + LimitOf(req[r].body) < total
                      THEN first + LimitOf(req[r].body) ELSE total
             n     == IF last > first THEN last - first ELSE 0
         IN /\ req[r].total = total
            /\ \E o \in SortedOrders(payments, idx) :
                 req[r].list = [k \in 1..n |-> o[first + k]]
  /\ \A r, t \in Reqs :
       ( /\ Listed(r) /\ Listed(t)
         /\ req[r].body.email = req[t].body.email
         /\ LimitOf(req[r].body) = LimitOf(req[t].body)
         /\ PageOf(req[r].body) = 1 /\ PageOf(req[t].body) = 2 )
       => /\ Range(req[r].list) \cap Range(req[t].list) = {}
          /\ req[r].total <= 2 * LimitOf(req[r].body)
               => Range(req[r].list) \cup Range(req[t].list)
                    = PaymentsOf(payments, req[r].body.email)

(* ----------------------------- every route ----------------------------- *)

InitFrame ==
  /\ users = <<SeedAdmin, SeedHR, SeedEmp>>
  /\ tasks = <<SeedTask>>
  /\ payments = <<Payment("u3", EmpEmail, 6, 2024)>>
  /\ req = [r \in Reqs |-> NoReq]

\* route, Authorization header, _id and body: a request to each route by a
\* principal its gate admits, and the routes that change User records by
\* principals their gates reject (tokens: 1 the Admin, 2 the HR, 3 the
\* Employee) and without a header
FrameCalls ==
  { <<"POST /users", <<>>, 0, [NoBody EXCEPT !.email = <<"E","@","x">>, !.role = "Admin",
                                             !.status = "fired", !.isVerified = TRUE]>>,
    <<"POST /users", <<>>, 0, [NoBody EXCEPT !.email = NewEmail, !.role = "Admin",
                                             !.status = "active"]>>,
    <<"POST /login-check", <<>>, 0, [NoBody EXCEPT !.email = EmpEmail]>>,
    <<"POST /create-payment-intent", <<>>, 0, NoBody>>,
    <<"GET /users/me", BearerHdr(<<"3">>), 0, [NoBody EXCEPT !.email = EmpEmail]>>,
    <<"GET /users/role", BearerHdr(<<"3">>), 0, NoBody>>,
    <<"GET /users/employees", BearerHdr(<<"2">>), 0, NoBody>>,
    <<"GET /work-sheet/me", BearerHdr(<<"3">>), 0, NoBody>>,
    <<"GET /payments", BearerHdr(<<"3">>), 0, [NoBody EXCEPT !.email = EmpEmail]>>,
    <<"POST /work-sheet", BearerHdr(<<"3">>), 0, TaskBody(<<EmpEmail>>)>>,
    <<"PUT /work-sheet/:id", BearerHdr(<<"3">>), 1, TaskBody(<<>>)>>,
    <<"DELETE /work-sheet/:id", BearerHdr(<<"3">>), 1, NoBody>>,
    <<"DELETE /work-sheet/:id", BearerHdr(<<"2">>), 1, NoBody>>,
    <<"POST /payment", BearerHdr(<<"2">>), 0, PayBody(Num(7), Num(2024))>>,
    <<"POST /payment", BearerHdr(<<"3">>), 0, PayBody(Num(7), Num(2024))>>,
    <<"PATCH /users/:id/fire", BearerHdr(<<"1">>), 3, NoBody>>,
    <<"PATCH /users/:id/fire", BearerHdr(<<"2">>), 1, NoBody>>,
    <<"PATCH /users/:id/fire", BearerHdr(<<"3">>), 2, NoBody>>,
    <<"PATCH /users/:id/fire", <<>>, 3, NoBody>>,
    <<"PATCH /users/:id/make-hr", BearerHdr(<<"1">>), 3, NoBody>>,
    <<"PATCH /users/:id/make-hr", BearerHdr(<<"3">>), 3, NoBody>>,
    <<"PATCH /users/:id/update-verification", BearerHdr(<<"2">>), 3,
      [NoBody EXCEPT !.isVerified = FALSE]>>,
    <<"PATCH /users/:id/update-verification", BearerHdr(<<"1">>), 3, NoBody>>,
    <<"PATCH /users/:id/update-verification", BearerHdr(<<"3">>), 3, NoBody>> }

\* the requests beside it: the Admin fires the HR or promotes the Employee,
\* the HR toggles the Employee's verification
FrameOthers ==
  { <<"PATCH /users/:id/fire", BearerHdr(<<"1">>), 2, NoBody>>,
    <<"PATCH /users/:id/make-hr", BearerHdr(<<"1">>), 3, NoBody>>,
    <<"PATCH /users/:id/update-verification", BearerHdr(<<"2">>), 3, NoBody>> }

ReceiveFrame(r) ==
  \/ r = 1 /\ \E c \in FrameCalls : Receive(r, c[1], c[2], c[3], c[4])
  \/ r > 1 /\ \E c \in FrameOthers : Receive(r, c[1], c[2], c[3], c[4])

NextFrame ==
  \E r \in Reqs :
    \/ ReceiveFrame(r) \/ VerifyIdToken(r) \/ RoleGate(r) \/ ReadFind(r)
    \/ UsersMeFindOne(r) \/ UsersRoleFindOne(r) \/ WsFind(r)
    \/ LoginFindOne(r) \/ UsersFindOne(r) \/ UsersInsertOne(r)
    \/ FireUpdateOne(r) \/ MakeHrUpdateOne(r)
    \/ VerificationFindOne(r) \/ VerificationUpdateOne(r)
    \/ WsInsertOne(r) \/ WsUpdateOne(r) \/ WsDeleteOne(r)
    \/ PayFindOne(r) \/ PayInsertOne(r)
    \/ PaymentsFind(r) \/ PaymentsCountDocuments(r) \/ PaymentIntentsCreate(r)

SpecFrame == InitFrame /\ [][NextFrame]_vars

(* ----------------------------- claims: frame --------------------------- *)

\* the request passed the verifier and the gate found a record of the role
AdmittedAs(q, role) ==
  q.idp = "accepted" /\ q.gate # <<>> /\ q.gate[1].role = role

\* C17: no User record is removed, and in every step a stored record's role or
\* status changes only with the step of a make-hr or fire request on its _id
\* that the Admin gate admitted, and its isVerified only with the step of an
\* update-verification request on its _id that the HR gate admitted.
C17_RoleStatusFrame ==
  [][\A i \in 1..Len(users) :
       /\ i <= Len(users')
       /\ users'[i].email = users[i].email
       /\ (users'[i].role # users[i].role \/ users'[i].status # users[i].status) =>
            \E r \in Reqs :
              /\ req'[r] # req[r] /\ req[r].id = i
              /\ req[r].route \in {"PATCH /users/:id/make-hr", "PATCH /users/:id/fire"}
              /\ AdmittedAs(req[r], "Admin")
       /\ users'[i].isVerified # users[i].isVerified =>
            \E r \in Reqs :
              /\ req'[r] # req[r] /\ req[r].id = i
              /\ req[r].route = "PATCH /users/:id/update-verification"
              /\ AdmittedAs(req[r], "HR")]_vars

\* POST /users named the stored email e@x as "E@x" with role Admin and status
\* fired and was answered 409, the HR's update-verification on the same user
\* was answered 200, and the record differs from the seeded one in isVerified
\* only
C17_Witness ==
  /\ req[1].route = "POST /users" /\ req[1].body.email = <<"E","@","x">>
  /\ req[1].status = 409
  /\ req[2].route = "PATCH /users/:id/update-verification" /\ req[2].status = 200
  /\ AdmittedAs(req[2], "HR")
  /\ users = <<SeedAdmin, SeedHR, [SeedEmp EXCEPT !.isVerified = TRUE]>>

(* ----------------------------- the verification toggle ----------------- *)

InitVerify ==
  /\ users = <<SeedAdmin, SeedHR, SeedEmp>>
  /\ tasks = <<>>
  /\ payments = <<>>
  /\ req = [r \in Reqs |-> NoReq]

\* Authorization header, _id and the isVerified of the body: the HR toggles
\* the Employee (3, not verified) or itself (2, verified), with either value
\* in the body; the Employee tries to
VerifyCalls ==
  { <<BearerHdr(<<"2">>), 3, FALSE>>, <<BearerHdr(<<"2">>), 3, TRUE>>,
    <<BearerHdr(<<"2">>), 2, FALSE>>, <<BearerHdr(<<"3">>), 3, TRUE>> }

ReceiveVerify(r) ==
  \E c \in VerifyCalls :
    Receive(r, "PATCH /users/:id/update-verification", c[1], c[2],
            [NoBody EXCEPT !.isVerified = c[3]])

NextVerify ==
  \E r \in Reqs :
    \/ ReceiveVerify(r) \/ VerifyIdToken(r) \/ RoleGate(r)
    \/ VerificationFindOne(r) \/ VerificationUpdateOne(r)

SpecVerify == InitVerify /\ [][NextVerify]_vars

(* ----------------------------- claims: the verification toggle --------- *)

Toggled(q) ==
  /\ q.route = "PATCH /users/:id/update-verification"
  /\ q.pc = "done" /\ q.status = 200 /\ q.loc # <<>>

\* C18: when an admitted update-verification writes a user that no other
\* request has written since this one read it, the user's isVerified becomes
\* the negation of the stored value, whatever the body says, and nothing else
\* changes; and when the request had arrived to find the result of an
\* earlier, answered update-verification on the user, and read the user as it
\* was on arrival, the value that earlier request had read is restored.
C18_VerificationToggle ==
  [][\A r \in Reqs :
       ( /\ req[r].pc = "verification_updateOne" /\ req'[r].status = 200
         /\ users[req[r].id] = req[r].loc[1] )
       => /\ users' = [users EXCEPT ![req[r].id].isVerified = ~users[req[r].id].isVerified]
          /\ \A t \in Reqs \ {r} :
               ( /\ Toggled(req[t]) /\ req[t].id = req[r].id
                 /\ req[r].seenUsers[req[r].id] =
                      [req[t].loc[1] EXCEPT !.isVerified = ~@]
                 /\ req[r].loc[1] = req[r].seenUsers[req[r].id] )
               => users'[req[r].id] = req[t].loc[1]]_vars

\* two requests in succession on the Employee, the first with isVerified
\* false in its body and the second with true: the first had set the flag to
\* true, the second set it back to false
C18_Witness ==
  /\ Toggled(req[1]) /\ req[1].id = 3 /\ req[1].body.isVerified = FALSE
  /\ req[1].loc = <<SeedEmp>>
  /\ Toggled(req[2]) /\ req[2].id = 3 /\ req[2].body.isVerified = TRUE
  /\ req[2].seenUsers[3] = [SeedEmp EXCEPT !.isVerified = TRUE]
  /\ req[2].loc = <<[SeedEmp EXCEPT !.isVerified = TRUE]>>
  /\ users = <<SeedAdmin, SeedHR, SeedEmp>>

\* C20: whatever the interleaving of update-verification requests on one
\* user, the user's isVerified is the initial value after an even number of
\* answered requests and its negation after an odd number.  (The handler
\* reads the flag with findOne and writes its negation with a later
\* updateOne: two requests that both read before either writes both write the
\* same value, and one toggle is lost.)
C20_NoToggleLost ==
  \A i \in 1..Len(users) :
    LET k == Cardinality({r \in Reqs : Toggled(req[r]) /\ req[r].id = i})
        initial == <<SeedAdmin, SeedHR, SeedEmp>>[i].isVerified
    IN users[i].isVerified = (IF k % 2 = 0 THEN initial ELSE ~initial)

(* ----------------------------- claims: pipeline order ------------------ *)

\* a request to a route registered with verifyFBToken: its handler was called
\* only with the token accepted and, where a role gate is registered, with a
\* record of the gate's role found after that; it is at a handler's store call
\* or has a handler's answer only if the handler was called; and answered 401
\* or 403 its handler was not called and the payment gateway not either
PipelineOrder(q) ==
  (q.route # "" /\ RouteGuard[q.route] # "none") =>
    /\ q.ran => /\ q.idp = "accepted" /\ q.decoded # <<>>
                /\ RouteGuard[q.route] # "token" =>
                     (q.gate # <<>> /\ q.gate[1].role = RouteGuard[q.route])
    /\ q.gate # <<>> => q.idp = "accepted"
    /\ q.pc \notin {"idle", "verifyIdToken", "gate", "escaped", "done"} => q.ran
    /\ q.status \notin {0, 401, 403} => q.ran
    /\ q.status \in {401, 403} => (q.pc = "done" /\ ~q.ran /\ q.intents = 0)

SeedTask2 == Task(2, <<Emp2Email>>, "a", Finite(8))

\* the two Employees, and a store that holds records of the Employee e@x only
\* or records of both
InitOwn ==
  /\ users = <<SeedAdmin, SeedHR, SeedEmp, SeedEmp2>>
  /\ \/ /\ tasks = <<SeedTask>>
        /\ payments = <<Payment("u3", EmpEmail, 6, 2024)>>
     \/ /\ tasks = <<SeedTask2, SeedTask>>
        /\ payments = <<Payment("u4", Emp2Email, 7, 2024), Payment("u3", EmpEmail, 6, 2024)>>
  /\ req = [r \in Reqs |-> NoReq]

\* the email query parameter: absent, the caller's own or another user's
OwnQueries ==
  { [NoBody EXCEPT !.email = e] : e \in { <<>>, EmpEmail, Emp2Email, HrEmail } }
    \cup { [NoBody EXCEPT !.email = EmpEmail, !.page = Str(<<"2">>), !.limit = Str(<<"1">>)] }

OwnRoutes == {"GET /payments", "GET /work-sheet/me", "GET /users/me"}

\* the first request is of the Employee e@x or of the HR (tokens 3 and 2),
\* with any of the queries; the requests beside it are of the Employee f@x
\* (token 4) and ask for its own records
ReceiveOwn(r) ==
  \/ /\ r = 1
     /\ \E route \in OwnRoutes, h \in {BearerHdr(<<"3">>), BearerHdr(<<"2">>)},
           b \in OwnQueries : Receive(r, route, h, 0, b)
  \/ /\ r > 1
     /\ \E route \in OwnRoutes :
          Receive(r, route, BearerHdr(<<"4">>), 0, [NoBody EXCEPT !.email = Emp2Email])

NextOwn ==
  \E r \in Reqs :
    \/ ReceiveOwn(r) \/ VerifyIdToken(r) \/ RoleGate(r)
    \/ UsersMeFindOne(r) \/ WsFind(r)
    \/ PaymentsFind(r) \/ PaymentsCountDocuments(r)

SpecOwn == InitOwn /\ [][NextOwn]_vars

(* ----------------------------- claims: own records --------------------- *)

\* the stored records that belong to the principal of email e
OwnUsers(e) == LET Mine(u) == u.email = e IN SelectSeq(users, Mine)
OwnTasks(e) == LET Mine(t) == t.created_by = <<e>> IN SelectSeq(tasks, Mine)
OwnPayments(e) == LET Mine(p) == p.email = e IN SelectSeq(payments, Mine)

\* the request is a read of one's own records that was answered 200 to a
\* principal whose User record has role Employee
OwnRead(q) ==
  /\ q.route \in OwnRoutes /\ q.pc = "done" /\ q.status = 200
  /\ GateAdmits(FindUserByEmail(users, q.decoded[1]), "Employee")

\* C22: a response to GET /payments, GET /work-sheet/me or GET /users/me that
\* an Employee principal receives holds only records of the principal's
\* verified email, whatever the query parameters are, and it is the response
\* the same request gets from the store without the other users' records (so
\* two stores that differ in other users' records only answer alike).  No
\* request of these behaviours writes: the store at the response is the store
\* that was read.
\* (The three handlers filter by req.query.email, never by the token's email:
\* the Employee e@x asking with email=f@x is sent the records of f@x.)
C22_OwnRecordsOnly ==
  \A r \in Reqs :
    OwnRead(req[r]) =>
      LET q == req[r]
          P == q.decoded[1]
      IN CASE q.route = "GET /users/me" ->
                /\ q.loc # <<>> => q.loc[1].email = P
                /\ q.loc = FindUserByEmail(OwnUsers(P), q.body.email)
           [] q.route = "GET /work-sheet/me" ->
                /\ \A k \in 1..Len(q.list) : tasks[q.list[k]].created_by = <<P>>
                /\ {tasks[i] : i \in Range(q.list)}
                     = {OwnTasks(P)[i] : i \in TasksOf(OwnTasks(P), q.body.email)}
           [] q.route = "GET /payments" ->
                /\ \A k \in 1..Len(q.list) : payments[q.list[k]].email = P
                /\ q.total = Cardinality(PaymentsOf(OwnPayments(P), q.body.email))
                /\ \E o \in SortedOrders(OwnPayments(P),
                                         PaymentsOf(OwnPayments(P), q.body.email)) :
                     LET page == SkipLimit(o, (PageOf(q.body) - 1) * LimitOf(q.body),
                                           LimitOf(q.body))
                     IN /\ Len(page) = Len(q.list)
                        /\ \A k \in 1..Len(page) :
                             payments[q.list[k]] = OwnPayments(P)[page[k]]

(* ----------------------------- the reported role ----------------------- *)

Roles == {"Admin", "HR", "Employee"}

\* the bodies of POST /users that register f@x: without a role, or with one
RoleBodies ==
  { [NoBody EXCEPT !.email = Emp2Email, !.role = role, !.status = "active",
                   !.designation = "Dev"] : role \in {"", "Employee", "HR"} }

\* route, Authorization header and _id: GET /users/role by the Admin, the HR,
\* the Employee and f@x, of which no record is stored at first (tokens 1 to
\* 4); the Admin fires or promotes the Employee (_id 3)
RoleCalls ==
  { <<"GET /users/role", BearerHdr(<<t>>), 0>> : t \in {"1", "2", "3", "4"} }
    \cup { <<"PATCH /users/:id/fire", BearerHdr(<<"1">>), 3>>,
           <<"PATCH /users/:id/make-hr", BearerHdr(<<"1">>), 3>> }

ReceiveRole(r) ==
  \/ \E b \in RoleBodies : Receive(r, "POST /users", <<>>, 0, b)
  \/ \E c \in RoleCalls : Receive(r, c[1], c[2], c[3], NoBody)

NextRole ==
  \E r \in Reqs :
    \/ ReceiveRole(r) \/ VerifyIdToken(r) \/ RoleGate(r) \/ UsersRoleFindOne(r)
    \/ UsersFindOne(r) \/ UsersInsertOne(r) \/ FireUpdateOne(r) \/ MakeHrUpdateOne(r)

SpecRole == Init /\ [][NextRole]_vars

(* ----------------------------- claims: the reported role --------------- *)

\* C23: when GET /users/role answers a verified principal, the role it
\* reports is R exactly when the Require-R gate, looking the principal up in
\* the Users collection of that moment, would admit it; a principal of which
\* no record is stored is reported none of the roles a gate admits.
\* (The handler sends user?.role || "Employee": a principal without a record,
\* or with a record without a role, is reported Employee, and verifyEmployee
\* rejects it.)
C23_ReportedRoleAgrees ==
  [][\A r \in Reqs :
       (req[r].pc = "role_findOne" /\ req'[r].status = 200) =>
         LET user == FindUserByEmail(users, req[r].decoded[1])
         IN /\ \A R \in Roles : req'[r].msg = R <=> GateAdmits(user, R)
            /\ user = <<>> => req'[r].msg \notin Roles]_vars

====
